---- MODULE Spec2Model ----
(***************************************************************************)
(* Model of main_process/src/process_control.cpp: the loop-unrolling       *)
(* sequence compiler (compileSequence) and the step-cursor controller      *)
(* (ProcessController).                                                    *)
(*                                                                         *)
(* A std::string is a sequence of one-character strings, so that the       *)
(* regular expressions of parseLoopStart / parseLoopEnd and std::stoi are  *)
(* computed on the characters of a line.                                   *)
(***************************************************************************)
EXTENDS Integers, Sequences, FiniteSets, TLC

(***************************************************************************)
(* Bounds of the model.                                                    *)
(***************************************************************************)
\* longest sequence file enumerated exhaustively (in lines)
MaxLen == 3
\* longest sequence file enumerated exhaustively under the control loop
MaxLoopLen == 1
\* moveToNextStep is not called any more once step_index_ is this far
\* beyond sequence_.size()
MaxOver == 1
\* number of moveToNextStep invocations that are counted and logged; the
\* unconstrained caller stops after as many
MaxCalls == 8

(***************************************************************************)
(* String literals of the program.                                         *)
(***************************************************************************)
Finished == <<"f", "i", "n", "i", "s", "h", "e", "d">>
InitStr == <<"i", "n", "i", "t">>
LoopStr == <<"l", "o", "o", "p">>
EndStr == <<"e", "n", "d">>
\* INT_MAX: std::stoi throws std::out_of_range above it
IntMax == 2147483647

\* the four entries of the built-in fallback list; the last two string
\* literals of the initializer are adjacent and so are one entry
FallbackRaw ==
  << <<"s", "l", "i", "d", "e", "r", "_", "i", "n", "i", "t", " ", "c", "o", "b", "o", "t", "t", "a", "_", "i", "n", "i", "t", " ", "w", "e", "i", "g", "h", "i", "n", "g", "_", "i", "n", "i", "t", " ", "p", "l", "c", "_", "i", "n", "i", "t">>,
     <<"s", "l", "i", "d", "e", "r", "_", "s", "h", "e", "l", "f", "_", "1", " ", "p", "l", "c", "_", "b", "u", "z", "z">>,
     <<"w", "e", "i", "g", "h", "i", "n", "g", "_", "o", "p", "e", "n", " ", "s", "l", "i", "d", "e", "r", "_", "w", "e", "i", "g", "h", "t", "_", "p", "o", "s", " ", "c", "o", "b", "o", "t", "t", "a", "_", "t", "e", "s", "t">>,
     <<"s", "l", "i", "d", "e", "r", "_", "i", "n", "i", "t", " ", "c", "o", "b", "o", "t", "t", "a", "_", "i", "n", "i", "t", " ", "w", "e", "i", "g", "h", "i", "n", "g", "_", "i", "n", "i", "t", " ", "p", "l", "c", "_", "i", "n", "i", "t", "f", "i", "n", "i", "s", "h", "e", "d">> >>

(***************************************************************************)
(* Character classes and scanning (the pieces of the two std::regex).     *)
(***************************************************************************)
\* \s of the ECMAScript grammar
IsSpace(c) == c \in {" ", "\t", "\n", "\r", "\f"}

\* \d
IsDigit(c) == c \in {"0", "1", "2", "3", "4", "5", "6", "7", "8", "9"}

DigitVal(c) ==
  CASE c = "0" -> 0 [] c = "1" -> 1 [] c = "2" -> 2 [] c = "3" -> 3
    [] c = "4" -> 4 [] c = "5" -> 5 [] c = "6" -> 6 [] c = "7" -> 7
    [] c = "8" -> 8 [] c = "9" -> 9

\* \s* from position i: the first position at or after i that is not a space
RECURSIVE SkipSpace(_, _)
SkipSpace(s, i) ==
  IF i <= Len(s) /\ IsSpace(s[i]) THEN SkipSpace(s, i + 1) ELSE i

\* \d+ from position i: the first position at or after i that is not a digit
RECURSIVE SkipDigits(_, _)
SkipDigits(s, i) ==
  IF i <= Len(s) /\ IsDigit(s[i]) THEN SkipDigits(s, i + 1) ELSE i

\* the literal w occurs in s at position i
HasAt(s, i, w) ==
  /\ i + Len(w) - 1 <= Len(s)
  /\ \A k \in 1..Len(w) : s[i + k - 1] = w[k]

\* the decimal value of the digits s[i..j-1], or -1 once it exceeds INT_MAX
RECURSIVE DecVal(_, _, _, _)
DecVal(s, i, j, acc) ==
  IF i >= j \/ acc < 0 THEN acc
  ELSE LET d == DigitVal(s[i])
       IN DecVal(s, i + 1, j,
                 IF acc > (IntMax - d) \div 10 THEN -1 ELSE acc * 10 + d)

\* std::stoi of a digit string: the value, or over = TRUE where it throws
\* std::out_of_range
Stoi(s, i, j) ==
  LET v == DecVal(s, i, j, 0)
  IN [over |-> v < 0, val |-> IF v < 0 THEN 0 ELSE v]

(***************************************************************************)
(* parseLoopStart: ^\s*loop(\d+)_(\d+)\s*$                                 *)
(***************************************************************************)
parseLoopStart(line) ==
  LET p0 == SkipSpace(line, 1)
      d1 == p0 + 4
      e1 == SkipDigits(line, d1)
      d2 == e1 + 1
      e2 == SkipDigits(line, d2)
      m  == /\ HasAt(line, p0, LoopStr)
            /\ e1 > d1
            /\ HasAt(line, e1, <<"_">>)
            /\ e2 > d2
            /\ SkipSpace(line, e2) = Len(line) + 1
      a  == IF m THEN Stoi(line, d1, e1) ELSE [over |-> FALSE, val |-> 0]
      b  == IF m THEN Stoi(line, d2, e2) ELSE [over |-> FALSE, val |-> 0]
  IN [match |-> m, throws |-> a.over \/ b.over, id |-> a.val, repeat |-> b.val]

(***************************************************************************)
(* parseLoopEnd: ^\s*loop(\d+)_end\s*$                                     *)
(***************************************************************************)
parseLoopEnd(line) ==
  LET p0 == SkipSpace(line, 1)
      d1 == p0 + 4
      e1 == SkipDigits(line, d1)
      m  == /\ HasAt(line, p0, LoopStr)
            /\ e1 > d1
            /\ HasAt(line, e1, <<"_">> \o EndStr)
            /\ SkipSpace(line, e1 + 4) = Len(line) + 1
      a  == IF m THEN Stoi(line, d1, e1) ELSE [over |-> FALSE, val |-> 0]
  IN [match |-> m, throws |-> a.over, id |-> a.val]

(***************************************************************************)
(* compileSequence.  A LoopFrame is [id, repeat, block].  The result is    *)
(* [ok |-> TRUE, out |-> the returned vector], or [ok |-> FALSE,           *)
(* out |-> <<>>] where the function leaves by an exception: nothing is     *)
(* returned then, the local vector out is destroyed.                       *)
(***************************************************************************)
LoopFrame(id, repeat) == [id |-> id, repeat |-> repeat, block |-> <<>>]

Thrown == [ok |-> FALSE, out |-> <<>>]

\* the mis-typed guard that lets a zero repeat through
InvalidRepeatNegOnly(rep) == rep < 0

\* the guard of the repeat check
InvalidRepeat(rep) == rep <= 0

\* the id check inverted
IdMismatchInverted(frameId, id) == frameId = id

\* the guard of the id check at a loop end
IdMismatch(frameId, id) == frameId # id

\* the expansion element by element instead of block by block
RECURSIVE ExpandInterleaved(_, _)
ExpandInterleaved(block, repeat) ==
  IF block = <<>> THEN <<>>
  ELSE [k \in 1..repeat |-> Head(block)] \o ExpandInterleaved(Tail(block), repeat)

\* "repeat-expand this frame.block": block inserted at the end repeat times
RECURSIVE Expand(_, _)
Expand(block, repeat) ==
  IF repeat <= 0 THEN <<>> ELSE Expand(block, repeat - 1) \o block

\* the last frame of the stack with v appended to its block
AppendToTop(stack, v) ==
  [stack EXCEPT ![Len(stack)].block = @ \o v]

\* the body of the for loop on one line, from the locals st = [out, stack]:
\* the locals afterwards, with thrown = TRUE where the body throws
LoopBody(st, line) ==
  LET out   == st.out
      stack == st.stack
      ps    == parseLoopStart(line)
      pe    == parseLoopEnd(line)
      throw == [thrown |-> TRUE, out |-> out, stack |-> stack]
      go(o, s) == [thrown |-> FALSE, out |-> o, stack |-> s]
  IN IF ps.match
     THEN IF ps.throws \/ InvalidRepeat(ps.repeat)
          THEN throw
          ELSE go(out, Append(stack, LoopFrame(ps.id, ps.repeat)))
     ELSE IF pe.match
     THEN IF pe.throws \/ stack = <<>>
          THEN throw
          ELSE LET frame    == stack[Len(stack)]
                   popped   == SubSeq(stack, 1, Len(stack) - 1)
                   expanded == Expand(frame.block, frame.repeat)
               IN IF IdMismatch(frame.id, pe.id)
                  THEN throw
                  ELSE IF popped = <<>>
                       THEN go(out \o expanded, popped)
                       ELSE go(out, AppendToTop(popped, expanded))
     ELSE IF stack = <<>>
          THEN go(Append(out, line), stack)
          ELSE go(out, AppendToTop(stack, <<line>>))

\* the for loop from raw[i] on, then the check for an unclosed loop and the
\* return.  (The locals after each iteration are bound as the element of a
\* singleton set, so that they are computed once.)
RECURSIVE CompileFrom(_, _, _)
CompileFrom(raw, i, st) ==
  IF st.thrown THEN Thrown
  ELSE IF i > Len(raw)
  THEN IF st.stack # <<>> THEN Thrown ELSE [ok |-> TRUE, out |-> st.out]
  ELSE CHOOSE res \in {CompileFrom(raw, i + 1, nx) : nx \in {LoopBody(st, raw[i])}} :
         TRUE

compileSequence(raw) ==
  CompileFrom(raw, 1, [thrown |-> FALSE, out |-> <<>>, stack |-> <<>>])

(***************************************************************************)
(* The inputs: the constructor's command and the sequence file.            *)
(***************************************************************************)
\* plain instructions
InstrA == <<"a">>
InstrB == <<"b">>
\* loop markers, one of them with surrounding white space and a leading zero
Loop1x2 == LoopStr \o <<"1", "_", "2">>
Loop1x3 == LoopStr \o <<"1", "_", "3">>
Loop2x2 == LoopStr \o <<"2", "_", "2">>
Loop1x0 == LoopStr \o <<"1", "_", "0">>
Loop1End == LoopStr \o <<"1", "_">> \o EndStr
Loop2End == LoopStr \o <<"2", "_">> \o EndStr
Loop1x2Spaced == <<" ">> \o LoopStr \o <<"0", "1", "_", "2", "\r">>
Loop1xBig == LoopStr \o <<"1", "_", "2", "1", "4", "7", "4", "8", "3", "6", "4", "8">>
\* lines the loader drops
EmptyLine == <<>>
CommentLine == <<"#", "a">>

\* the lines a sequence file is made of
Lines ==
  {InstrA, Finished, Loop1x2, Loop1End, Loop2x2, Loop2End, Loop1x0,
   EmptyLine, CommentLine}

\* longer files: the expansions and rejections of interest beyond MaxLen
Examples ==
  { <<Loop1x3, InstrA, InstrB, Loop1End>>,
    <<Loop1x2, InstrA, Loop2x2, InstrB, Loop2End, Loop1End>>,
    <<Loop1x2, InstrA, Loop1End, Loop1x2, InstrB, Loop1End, Finished>>,
    <<InstrA, Loop1x2Spaced, InstrB, Loop1End, InstrA>>,
    <<InstrA, Loop1xBig, InstrB, Loop1End>>,
    <<InstrA, Loop1x2, InstrB, Loop2x2, InstrA, Loop1End, Loop2End>>,
    <<Loop2x2, Loop1x2, InstrA, Loop1End, InstrB, Loop2End, InstrA>> }

\* the contents a sequence file can have
Files == (UNION {[1..n -> Lines] : n \in 0..MaxLen}) \cup Examples

\* the constructor's command: the literal "init" or another one
Commands == {InitStr, <<"g", "o">>}

\* what a read beyond the end of the vector can yield as a string
Garbage == {<<>>, <<"?">>}

\* a registration that forgets the last device
DeviceOrderShort == <<"weighing", "slider", "cobotta">>

\* the registration order of the constructor
DeviceOrder == <<"weighing", "slider", "cobotta", "plc">>

(***************************************************************************)
(* State.                                                                  *)
(***************************************************************************)
VARIABLES
  command,        \* the constructor's argument
  fileOpen,       \* whether secquence_file_ can be opened
  fileLines,      \* the lines of the file
  pc,             \* position: the constructor's steps, "running", "crashed"
  current_step_,
  step_index_,
  sequence_,
  raw,            \* initializeSequences' local raw, as last assigned
  compiled,       \* outcome of the compileSequence call: [called, ok, out]
  dm_initializing,\* devices_manager_.initializing
  dm_devices,     \* devices added to devices_manager_, in order
  dm_standby,     \* devices_manager_.checkDevices(Situation::STANDBY)
  dm_log,         \* commands passed to devices_manager_.updateDeviceStatus
  message,        \* last return value of updateDeviceStatuses
  ready,          \* last return value of isReadyToNextStep, until used
  answer,         \* last return value of isSequenceCompleted / getCurrentStep
  calls,          \* moveToNextStep invocations so far
  redispatches    \* of them, those that took the re-dispatch branch

vars ==
  <<command, fileOpen, fileLines, pc, current_step_, step_index_, sequence_,
    raw, compiled, dm_initializing, dm_devices, dm_standby, dm_log, message,
    ready, answer, calls, redispatches>>

inputVars == <<command, fileOpen, fileLines>>
ctrlVars == <<current_step_, step_index_, sequence_>>
seqVars == <<raw, compiled>>
callVars == <<calls, redispatches>>

NotCalled == [called |-> FALSE, ok |-> FALSE, out |-> <<>>]

\* no query answered yet
NoAnswer == [op |-> "none", flag |-> FALSE, step |-> <<>>]

\* the member initializers current_step_(command), step_index_(0) have run
Init ==
  /\ command \in Commands
  /\ fileOpen \in BOOLEAN
  /\ fileLines \in Files
  /\ (~fileOpen => fileLines = <<>>)
  /\ pc = "new"
  /\ current_step_ = command
  /\ step_index_ = 0
  /\ sequence_ = <<>>
  /\ raw = <<>>
  /\ compiled = NotCalled
  /\ dm_initializing = FALSE
  /\ dm_devices = <<>>
  /\ dm_standby = FALSE
  /\ dm_log = <<>>
  /\ message = "none"
  /\ ready = FALSE
  /\ answer = NoAnswer
  /\ calls = 0
  /\ redispatches = 0

(***************************************************************************)
(* ProcessController::ProcessController, lines 96-101: registration.       *)
(***************************************************************************)
BeginRegistration ==
  /\ pc = "new"
  /\ dm_initializing' = TRUE
  /\ pc' = "registering"
  /\ UNCHANGED <<inputVars, ctrlVars, seqVars, callVars, dm_devices,
                 dm_standby, dm_log, message, ready, answer>>

AddDevice ==
  /\ pc = "registering"
  /\ Len(dm_devices) < Len(DeviceOrder)
  /\ dm_devices' = Append(dm_devices, DeviceOrder[Len(dm_devices) + 1])
  /\ UNCHANGED <<inputVars, ctrlVars, seqVars, callVars, pc, dm_initializing,
                 dm_standby, dm_log, message, ready, answer>>

EndRegistration ==
  /\ pc = "registering"
  /\ Len(dm_devices) = Len(DeviceOrder)
  /\ dm_initializing' = FALSE
  /\ pc' = "registered"
  /\ UNCHANGED <<inputVars, ctrlVars, seqVars, callVars, dm_devices,
                 dm_standby, dm_log, message, ready, answer>>

(***************************************************************************)
(* ProcessController::initializeSequences.                                 *)
(***************************************************************************)
\* the getline loop: empty lines and lines starting with '#' are skipped
RECURSIVE LoadLines(_)
LoadLines(lines) ==
  IF lines = <<>> THEN <<>>
  ELSE LET line == Head(lines)
       IN IF line = <<>> \/ line[1] = "#"
          THEN LoadLines(Tail(lines))
          ELSE <<line>> \o LoadLines(Tail(lines))

\* "1) compile": sequence_ after the try/catch around compileSequence
CompileOrFallback(res) ==
  IF res.ok THEN res.out ELSE <<Finished>>

\* the sentinel pushed whatever the sequence ends with
GuaranteeFinishedAlways(seq) == Append(seq, Finished)

\* the sentinel never pushed
GuaranteeFinishedNever(seq) == seq

\* "2) guarantee finished"
GuaranteeFinished(seq) ==
  IF seq = <<>> \/ seq[Len(seq)] # Finished THEN Append(seq, Finished) ELSE seq

InitializeSequences ==
  /\ pc = "registered"
  /\ pc' = "sequenced"
  /\ IF ~fileOpen
     THEN \* the fallback list is assigned to raw, then the function returns
          /\ raw' = FallbackRaw
          /\ compiled' = NotCalled
          /\ sequence_' = sequence_
     ELSE \E r \in {LoadLines(fileLines)} :
            \E res \in {compileSequence(r)} :
              /\ raw' = r
              /\ compiled' = [called |-> TRUE, ok |-> res.ok, out |-> res.out]
              /\ sequence_' = GuaranteeFinished(CompileOrFallback(res))
  /\ UNCHANGED <<inputVars, current_step_, step_index_, callVars,
                 dm_initializing, dm_devices, dm_standby, dm_log, message,
                 ready, answer>>

(***************************************************************************)
(* Queries.                                                                *)
(***************************************************************************)
getCurrentStep == current_step_

\* a readiness that is reported whatever the devices say
isReadyAlways == TRUE

\* a readiness that is reported once and then withheld
isReadyOnce == dm_standby /\ ~ready

\* devices_manager_.checkDevices(Situation::STANDBY)
isReadyToNextStep == dm_standby

isSequenceCompleted == step_index_ >= Len(sequence_)

(***************************************************************************)
(* ProcessController::updateDeviceStatuses and moveToNextStep.             *)
(***************************************************************************)
\* the message for updateDeviceStatus's success flag
StatusMessage(ok) ==
  IF ok THEN "update device status success" ELSE "update device status error"

\* the guard without its test for "init"
SpecialCaseAnyCommand(idx, cur) == idx = 0

\* the guard of the re-dispatch branch
SpecialCase(idx, cur) == idx = 0 /\ cur # InitStr

\* the cursor held back when the device update failed
NextIndexIfOk(idx, ok) == IF ok THEN idx + 1 ELSE idx

\* step_index_++ (the result of the dispatch is not looked at)
NextIndex(idx, ok) == idx + 1

\* the previous step passed on instead of the element just read
AdvanceCommandStale(cur, elem) == cur

\* the argument of the normal branch's updateDeviceStatuses: current_step_,
\* which has just been assigned the element read
AdvanceCommand(cur, elem) == elem

\* the element read erased from the front of the vector
ConsumedErased(seq, idx) == IF seq = <<>> THEN seq ELSE Tail(seq)

\* sequence_ after moveToNextStep: the vector is read, never written
Consumed(seq, idx) == seq

\* sequence_[idx] (0-based).  Beyond the end the read is undefined: the
\* process faults, or some string is read.
ReadElement(seq, idx) ==
  IF idx < Len(seq)
  THEN {[fault |-> FALSE, val |-> seq[idx + 1]]}
  ELSE {[fault |-> TRUE, val |-> <<>>]}
         \cup {[fault |-> FALSE, val |-> g] : g \in Garbage}

\* the observers calls, redispatches and dm_log record the first MaxCalls
\* invocations only
Bump(n) == IF n < MaxCalls THEN n + 1 ELSE n

Logged(log, cmd) == IF Len(log) < MaxCalls THEN Append(log, cmd) ELSE log

\* devices_manager_.updateDeviceStatus(cmd) returning ok and leaving the
\* devices in standby or not (sb); the message is updateDeviceStatuses' result
Dispatch(cmd, ok, sb) ==
  /\ dm_log' = Logged(dm_log, cmd)
  /\ dm_standby' = sb
  /\ message' = StatusMessage(ok)

\* the body of moveToNextStep; after is the caller's position afterwards
MoveBody(after) ==
  /\ calls' = Bump(calls)
  /\ \E ok \in BOOLEAN, sb \in BOOLEAN,
        rd \in ReadElement(sequence_, step_index_) :
       IF SpecialCase(step_index_, current_step_)
       THEN /\ Dispatch(current_step_, ok, sb)
            /\ redispatches' = Bump(redispatches)
            /\ pc' = after
            /\ UNCHANGED <<current_step_, step_index_>>
       ELSE IF rd.fault
       THEN /\ pc' = "crashed"
            /\ UNCHANGED <<current_step_, step_index_, redispatches, dm_log,
                           dm_standby, message>>
       ELSE /\ current_step_' = rd.val
            /\ Dispatch(AdvanceCommand(current_step_, rd.val), ok, sb)
            /\ step_index_' = NextIndex(step_index_, ok)
            /\ pc' = after
            /\ UNCHANGED redispatches
  /\ sequence_' = Consumed(sequence_, step_index_)
  /\ UNCHANGED <<inputVars, seqVars, dm_initializing, dm_devices, answer>>

\* the constructor's last statement
ConstructorMove ==
  /\ pc = "sequenced"
  /\ MoveBody("running")
  /\ UNCHANGED ready

\* callers stop after MaxCalls invocations, or MaxOver steps past the end
MayCall ==
  /\ pc = "running"
  /\ calls < MaxCalls
  /\ step_index_ < Len(sequence_) + MaxOver

\* moveToNextStep called by any caller of the constructed controller
MoveToNextStep ==
  /\ MayCall
  /\ MoveBody("running")
  /\ UNCHANGED ready

\* isReadyToNextStep called by any caller
IsReadyToNextStep ==
  /\ pc = "running"
  /\ ready' = isReadyToNextStep
  /\ UNCHANGED <<inputVars, ctrlVars, seqVars, callVars, pc, dm_initializing,
                 dm_devices, dm_standby, dm_log, message, answer>>

\* the devices change between standby and not, on their own
DeviceReport ==
  /\ pc = "running"
  /\ dm_standby' = ~dm_standby
  /\ UNCHANGED <<inputVars, ctrlVars, seqVars, callVars, pc, dm_initializing,
                 dm_devices, dm_log, message, ready, answer>>

Construct ==
  \/ BeginRegistration
  \/ AddDevice
  \/ EndRegistration
  \/ InitializeSequences
  \/ ConstructorMove

Next ==
  \/ Construct
  \/ MoveToNextStep
  \/ IsReadyToNextStep
  \/ DeviceReport

Spec == Init /\ [][Next]_vars

(***************************************************************************)
(* The const queries as operations of their own, on the smaller set of     *)
(* files.                                                                  *)
(***************************************************************************)
IsSequenceCompleted ==
  /\ pc = "running"
  /\ answer' = [op |-> "isSequenceCompleted", flag |-> isSequenceCompleted,
                step |-> <<>>]
  /\ UNCHANGED <<inputVars, ctrlVars, seqVars, callVars, pc, dm_initializing,
                 dm_devices, dm_standby, dm_log, message, ready>>

GetCurrentStep ==
  /\ pc = "running"
  /\ answer' = [op |-> "getCurrentStep", flag |-> FALSE,
                step |-> getCurrentStep]
  /\ UNCHANGED <<inputVars, ctrlVars, seqVars, callVars, pc, dm_initializing,
                 dm_devices, dm_standby, dm_log, message, ready>>

QueryNext ==
  \/ Next
  \/ IsSequenceCompleted
  \/ GetCurrentStep

(***************************************************************************)
(* The expected usage: an external control loop that polls                 *)
(* isReadyToNextStep and calls moveToNextStep when it returned true, until *)
(* isSequenceCompleted.                                                    *)
(***************************************************************************)
LoopPoll ==
  /\ pc = "running"
  /\ ~ready
  /\ ~isSequenceCompleted
  /\ ready' = isReadyToNextStep
  /\ UNCHANGED <<inputVars, ctrlVars, seqVars, callVars, pc, dm_initializing,
                 dm_devices, dm_standby, dm_log, message, answer>>

\* the poll that finds the devices in standby
LoopPollReady == LoopPoll /\ ready'

LoopMove ==
  /\ pc = "running"
  /\ ready
  /\ MoveBody("running")
  /\ ready' = FALSE

\* the files of the runs under the control loop
LoopFiles == (UNION {[1..n -> Lines] : n \in 0..MaxLoopLen}) \cup Examples

LoopInit == Init /\ fileLines \in LoopFiles

LoopNext ==
  \/ Construct
  \/ LoopPoll
  \/ LoopMove
  \/ DeviceReport

\* the constructor runs to its end, the loop keeps running, and a poll made
\* again and again while the devices are ready again and again sees them ready
LoopSpec ==
  /\ LoopInit
  /\ [][LoopNext]_vars
  /\ WF_vars(Construct)
  /\ WF_vars(LoopPoll)
  /\ WF_vars(LoopMove)
  /\ SF_vars(LoopPollReady)

\* any caller, the const queries included
QuerySpec == LoopInit /\ [][QueryNext]_vars

(***************************************************************************)
(* Properties.                                                             *)
(***************************************************************************)
Last(seq) == seq[Len(seq)]

Range(seq) == {seq[i] : i \in 1..Len(seq)}

\* initializeSequences has returned
Sequenced == pc \in {"sequenced", "running", "crashed"}

\* C1: sentinel invariant.  When the sequence file was loaded, the compiled
\* sequence of the controller is non-empty and ends with "finished": it is
\* the compiler's output unchanged when that ends with "finished", the output
\* with one "finished" appended when it ends otherwise or is empty, and the
\* single-element fallback when compilation failed.
C1_SentinelInvariant ==
  (Sequenced /\ fileOpen) =>
    /\ compiled.called
    /\ sequence_ # <<>>
    /\ Last(sequence_) = Finished
    /\ (compiled.ok /\ compiled.out # <<>> /\ Last(compiled.out) = Finished)
         => sequence_ = compiled.out
    /\ (compiled.ok /\ (compiled.out = <<>> \/ Last(compiled.out) # Finished))
         => sequence_ = compiled.out \o <<Finished>>
    /\ ~compiled.ok => sequence_ = <<Finished>>

\* a constructed controller whose compiled input ended with another
\* instruction and got the sentinel appended
C1_Witness ==
  /\ pc = "running"
  /\ fileOpen
  /\ compiled.ok
  /\ compiled.out # <<>>
  /\ Last(compiled.out) = InstrA
  /\ sequence_ = compiled.out \o <<Finished>>

\* C2: when the sequence file cannot be opened, the compiled sequence after
\* construction is non-empty, contains the instructions of the built-in
\* fallback and ends with "finished".
C2_FallbackInstalled ==
  (Sequenced /\ ~fileOpen) =>
    /\ sequence_ # <<>>
    /\ Last(sequence_) = Finished
    /\ \A i \in 1..3 : FallbackRaw[i] \in Range(sequence_)

\* C3: convergence.  Under the control loop, for every file content and
\* every constructor command, if the devices are ready infinitely often the
\* controller eventually is constructed and completed.
C3_Converges ==
  ([]<>dm_standby) => <>(pc = "running" /\ isSequenceCompleted)

\* C4: when the constructor command is not "init", the re-dispatch branch of
\* moveToNextStep is taken by the first invocation only: there is never a
\* second re-dispatch.
C4_RedispatchOnce ==
  (command # InitStr) => redispatches <= 1

\* C5: a step never decreases step_index_ and never leaves it greater than
\* the length of the compiled sequence.
C5_CursorMonotoneBounded ==
  [][/\ step_index_' >= step_index_
     /\ step_index_' <= Len(sequence_')]_vars

\* moveToNextStep invocations after the initial-dispatch special case: the
\* constructor's invocation is that special case when the command is not
\* "init", and the first normal one when it is
CallsAfterSpecialCase ==
  IF command = InitStr THEN calls ELSE calls - 1

\* C6: with N the length of the compiled sequence, isSequenceCompleted is
\* step_index_ >= N, it holds after N invocations of moveToNextStep that
\* follow the initial-dispatch special case, and after no smaller number.
C6_CompletionCount ==
  (pc = "running" /\ calls < MaxCalls) =>
    /\ isSequenceCompleted <=> step_index_ >= Len(sequence_)
    /\ CallsAfterSpecialCase >= Len(sequence_) => isSequenceCompleted
    /\ CallsAfterSpecialCase < Len(sequence_) => ~isSequenceCompleted

(***************************************************************************)
(* The loop language read off the lines, independently of the compiler's   *)
(* stack: the reference expansion by recursive descent.                    *)
(***************************************************************************)
IsStart(line) == parseLoopStart(line).match

IsEnd(line) == ~IsStart(line) /\ parseLoopEnd(line).match

\* the position at or after i of the loop end that closes the d-th loop open
\* at i, or 0 if there is none
RECURSIVE MatchEnd(_, _, _)
MatchEnd(lines, i, d) ==
  IF i > Len(lines) THEN 0
  ELSE IF IsStart(lines[i]) THEN MatchEnd(lines, i + 1, d + 1)
  ELSE IF IsEnd(lines[i])
       THEN IF d = 1 THEN i ELSE MatchEnd(lines, i + 1, d - 1)
  ELSE MatchEnd(lines, i + 1, d)

\* properly bracketed loops, each with a repeat of at least 1 (and within
\* int) and closed by the loop end of its own ID
RECURSIVE WellFormed(_)
WellFormed(lines) ==
  IF lines = <<>> THEN TRUE
  ELSE IF IsStart(Head(lines))
  THEN LET ps == parseLoopStart(Head(lines))
           j  == MatchEnd(lines, 2, 1)
       IN /\ ~ps.throws
          /\ ps.repeat >= 1
          /\ j # 0
          /\ ~parseLoopEnd(lines[j]).throws
          /\ parseLoopEnd(lines[j]).id = ps.id
          /\ WellFormed(SubSeq(lines, 2, j - 1))
          /\ WellFormed(SubSeq(lines, j + 1, Len(lines)))
  ELSE IF IsEnd(Head(lines)) THEN FALSE
  ELSE WellFormed(Tail(lines))

\* body concatenated n times, block after block
RefRepeat(body, n) ==
  [k \in 1..(n * Len(body)) |-> body[((k - 1) % Len(body)) + 1]]

\* each loop replaced by its expanded body repeated, the rest in place
RECURSIVE RefExpand(_)
RefExpand(lines) ==
  IF lines = <<>> THEN <<>>
  ELSE IF IsStart(Head(lines))
  THEN LET j == MatchEnd(lines, 2, 1)
       IN RefRepeat(RefExpand(SubSeq(lines, 2, j - 1)),
                    parseLoopStart(Head(lines)).repeat)
            \o RefExpand(SubSeq(lines, j + 1, Len(lines)))
  ELSE <<Head(lines)>> \o RefExpand(Tail(lines))

\* C7: loop expansion.  On every well-formed list of raw lines
\* compileSequence returns the reference expansion: each loop replaced by its
\* expanded body repeated block after block, inner loops first, the other
\* instructions in place; loop1_3[a b] gives a b a b a b and
\* loop1_2[a loop2_2[b]] gives a b b a b b.
C7_LoopExpansion ==
  compiled.called =>
    /\ WellFormed(raw) => (compiled.ok /\ compiled.out = RefExpand(raw))
    /\ raw = <<Loop1x3, InstrA, InstrB, Loop1End>>
         => compiled.out = <<InstrA, InstrB, InstrA, InstrB, InstrA, InstrB>>
    /\ raw = <<Loop1x2, InstrA, Loop2x2, InstrB, Loop2End, Loop1End>>
         => compiled.out = <<InstrA, InstrB, InstrB, InstrA, InstrB, InstrB>>

\* the nested example compiled
C7_Witness ==
  /\ compiled.called
  /\ raw = <<Loop1x2, InstrA, Loop2x2, InstrB, Loop2End, Loop1End>>
  /\ WellFormed(raw)
  /\ compiled.out = <<InstrA, InstrB, InstrB, InstrA, InstrB, InstrB>>

\* the IDs of the loops open after the first n lines
RECURSIVE OpenIds(_, _)
OpenIds(lines, n) ==
  IF n = 0 THEN <<>>
  ELSE LET s == OpenIds(lines, n - 1)
           l == lines[n]
       IN IF IsStart(l) THEN Append(s, parseLoopStart(l).id)
          ELSE IF IsEnd(l)
               THEN IF s = <<>> THEN s ELSE SubSeq(s, 1, Len(s) - 1)
          ELSE s

HasInvalidRepeat(lines) ==
  \E i \in 1..Len(lines) :
    /\ IsStart(lines[i])
    /\ ~parseLoopStart(lines[i]).throws
    /\ parseLoopStart(lines[i]).repeat = 0

HasUnmatchedLoopEnd(lines) ==
  \E i \in 1..Len(lines) :
    IsEnd(lines[i]) /\ OpenIds(lines, i - 1) = <<>>

HasLoopIdMismatch(lines) ==
  \E i \in 1..Len(lines) :
    /\ IsEnd(lines[i])
    /\ OpenIds(lines, i - 1) # <<>>
    /\ Last(OpenIds(lines, i - 1)) # parseLoopEnd(lines[i]).id

HasUnclosedLoop(lines) == OpenIds(lines, Len(lines)) # <<>>

\* C8: compiler rejection.  compileSequence throws, returning nothing, on
\* every input with a loop start of repeat 0, a loop end while no loop is
\* open, a loop end whose ID is not that of the innermost open loop, or a
\* loop still open at the end.
C8_CompilerRejection ==
  (/\ compiled.called
   /\ \/ HasInvalidRepeat(raw)
      \/ HasUnmatchedLoopEnd(raw)
      \/ HasLoopIdMismatch(raw)
      \/ HasUnclosedLoop(raw))
    => (~compiled.ok /\ compiled.out = <<>>)

\* a zero repeat, closed by its own loop end, rejected
C8_Witness ==
  /\ compiled.called
  /\ HasInvalidRepeat(raw)
  /\ ~HasUnmatchedLoopEnd(raw)
  /\ ~HasLoopIdMismatch(raw)
  /\ ~HasUnclosedLoop(raw)
  /\ ~compiled.ok

\* C9: recovery by substitution.  Whenever compileSequence failed on the
\* loaded lines the compiled sequence of the controller is exactly
\* <<"finished">>: no instruction read before the error is in it.
C9_RecoveryBySubstitution ==
  (Sequenced /\ compiled.called /\ ~compiled.ok) =>
    /\ sequence_ = <<Finished>>
    /\ \A i \in 1..Len(raw) : raw[i] # Finished => raw[i] \notin Range(sequence_)

\* a top-level instruction before the faulty marker, dropped
C9_Witness ==
  /\ pc = "running"
  /\ compiled.called
  /\ ~compiled.ok
  /\ Len(raw) >= 2
  /\ raw[1] = InstrA
  /\ sequence_ = <<Finished>>

\* C10: a normal advance of moveToNextStep (an element of the sequence is
\* read) increments step_index_ by one and sets current_step_ to the element
\* at the old index, whether the device update succeeded or failed.
C10_AdvanceDespiteFailure ==
  [][(/\ calls' = calls + 1
      /\ pc' = "running"
      /\ ~SpecialCase(step_index_, current_step_)
      /\ step_index_ < Len(sequence_)
      /\ message' \in {StatusMessage(TRUE), StatusMessage(FALSE)})
     => (/\ step_index_' = step_index_ + 1
         /\ current_step_' = sequence_[step_index_ + 1]
         /\ sequence_' = sequence_)]_vars

\* a failed dispatch of the second or a later element, the cursor advanced
C10_Witness ==
  /\ pc = "running"
  /\ command = InitStr
  /\ message = StatusMessage(FALSE)
  /\ calls >= 2
  /\ step_index_ = calls
  /\ step_index_ <= Len(sequence_)
  /\ current_step_ = sequence_[step_index_]

\* C11 as stated: under the control loop step_index_ increases only right
\* after a poll that returned true, so that it stays 0 while the devices are
\* never ready.
C11_GatedAlways ==
  [][step_index_' > step_index_ => ready]_vars

\* C11, amended: under the control loop, once the constructor has returned,
\* a poll returns true only with the devices in standby, and step_index_
\* changes and a command is dispatched only in a moveToNextStep that follows
\* a poll that returned true; the constructor's own moveToNextStep is not
\* gated.  So if the devices are never in standby nothing is dispatched after
\* construction and step_index_ keeps the value construction left, 0 or 1.
C11_GatedAfterConstruction ==
  /\ [][/\ (~ready /\ ready') => dm_standby
        /\ (/\ pc = "running"
            /\ \/ step_index_' # step_index_
               \/ dm_log' # dm_log
               \/ calls' # calls) => ready]_vars
  /\ ([]~dm_standby) =>
       [](pc = "running" => (calls = 1 /\ Len(dm_log) = 1 /\ step_index_ <= 1))

\* the loop has made a gated move that consumed the second element
C11_Witness ==
  /\ pc = "running"
  /\ command = InitStr
  /\ calls = 2
  /\ step_index_ = 2
  /\ ~ready
  /\ current_step_ = sequence_[2]

\* C12 as stated: construction performs exactly one dispatch, of the
\* constructor's command, whatever the command.
C12_InitialDispatch ==
  (pc \in {"running", "crashed"} /\ calls = 1) => dm_log = <<command>>

\* C12, amended: construction dispatches nothing before its last statement
\* and at most one command in it.  A command other than "init" is dispatched
\* itself, exactly once.  With the command "init" the dispatch is of the
\* element the constructor's moveToNextStep read at index 0, the first
\* element of the compiled sequence when there is one, and step_index_ is 1;
\* nothing is dispatched only if that read faulted on an empty sequence.
C12_InitialDispatchAmended ==
  /\ pc \notin {"running", "crashed"} => dm_log = <<>>
  /\ (pc = "running" /\ calls = 1) =>
       /\ Len(dm_log) = 1
       /\ command # InitStr => (dm_log[1] = command /\ step_index_ = 0)
       /\ command = InitStr => (dm_log[1] = current_step_ /\ step_index_ = 1)
       /\ (command = InitStr /\ sequence_ # <<>>) => dm_log[1] = sequence_[1]
  /\ (pc = "crashed" /\ calls = 1) =>
       (dm_log = <<>> /\ command = InitStr /\ sequence_ = <<>>)

\* constructed with "init": the first element was dispatched, not "init"
C12_Witness ==
  /\ pc = "running"
  /\ calls = 1
  /\ command = InitStr
  /\ sequence_ # <<>>
  /\ dm_log = <<sequence_[1]>>
  /\ step_index_ = 1

\* C13: in every state after construction getCurrentStep() is the command
\* most recently passed to updateDeviceStatus.
C13_CurrentStepIsLastDispatched ==
  pc = "running" => (dm_log # <<>> /\ Last(dm_log) = getCurrentStep)

\* the second element, different from the first, dispatched and current
C13_Witness ==
  /\ pc = "running"
  /\ command = InitStr
  /\ step_index_ = 2
  /\ Len(sequence_) >= 2
  /\ sequence_[1] # sequence_[2]
  /\ Last(dm_log) = sequence_[2]
  /\ getCurrentStep = sequence_[2]

\* C14: the queries are pure.  A step in which isReadyToNextStep,
\* isSequenceCompleted or getCurrentStep returns a new value leaves
\* step_index_, current_step_, sequence_ and the device manager as they were
\* and dispatches nothing; isReadyToNextStep returns the devices' standby
\* state, which it leaves unchanged, so that calling it again at once
\* returns the same; the other two return step_index_ >= size and
\* current_step_.
C14_PureQueries ==
  [][(ready' # ready \/ answer' # answer) =>
       /\ UNCHANGED <<current_step_, step_index_, sequence_, dm_initializing,
                      dm_devices, dm_standby, dm_log, message, calls,
                      redispatches, pc>>
       /\ ready' # ready => (ready' = dm_standby /\ ready' = dm_standby')
       /\ answer' # answer =>
            \/ /\ answer'.op = "isSequenceCompleted"
               /\ answer'.flag = (step_index_ >= Len(sequence_))
            \/ /\ answer'.op = "getCurrentStep"
               /\ answer'.step = current_step_]_vars

\* the three queries answered in the middle of a run, the state as it was
C14_Witness ==
  /\ pc = "running"
  /\ command = InitStr
  /\ step_index_ = 2
  /\ calls = 2
  /\ Len(dm_log) = 2
  /\ ready
  /\ dm_standby
  /\ answer.op = "getCurrentStep"
  /\ answer.step = current_step_

\* C15: once initializeSequences has returned no step changes sequence_.
C15_SequenceImmutable ==
  [][Sequenced => sequence_' = sequence_]_vars

\* a run to completion with queries, the sequence still what
\* initializeSequences installed
C15_Witness ==
  /\ pc = "running"
  /\ command = InitStr
  /\ compiled.called
  /\ Len(sequence_) >= 3
  /\ step_index_ = Len(sequence_)
  /\ answer.op = "isSequenceCompleted"
  /\ answer.flag
  /\ sequence_ = GuaranteeFinished(CompileOrFallback(compiled))

\* C16: registration ordering.  The four devices weighing, slider, cobotta
\* and plc are added while devices_manager_.initializing is true; the flag is
\* false, and the four are registered, from then on, in particular when
\* initializeSequences runs; no command is dispatched, no moveToNextStep runs
\* and no readiness is reported while the flag is true.
C16_RegistrationOrdering ==
  /\ [](/\ pc = "registering" => dm_initializing
        /\ pc \in {"registered", "sequenced", "running", "crashed"} =>
             /\ ~dm_initializing
             /\ Len(dm_devices) = 4
             /\ Range(dm_devices) = {"weighing", "slider", "cobotta", "plc"}
        /\ dm_initializing =>
             (dm_log = <<>> /\ calls = 0 /\ ~ready /\ ~compiled.called))
  /\ [][/\ dm_devices' # dm_devices => (dm_initializing /\ dm_initializing')
        /\ (dm_log' # dm_log \/ calls' # calls \/ ready' # ready)
             => (~dm_initializing /\ ~dm_initializing')
        /\ (pc = "registered" /\ pc' = "sequenced")
             => (~dm_initializing /\ ~dm_initializing')]_vars

\* registration over, initializeSequences about to run
C16_Witness ==
  /\ pc = "registered"
  /\ ~dm_initializing
  /\ dm_devices = <<"weighing", "slider", "cobotta", "plc">>
  /\ sequence_ = <<>>
  /\ dm_log = <<>>

(***************************************************************************)
(* The loop markers as text: the numerals of a marker, whatever their size. *)
(***************************************************************************)
\* the digits of the ID of a loop start or loop end
IdDigits(line) ==
  LET d1 == SkipSpace(line, 1) + 4
  IN SubSeq(line, d1, SkipDigits(line, d1) - 1)

\* the digits of the repeat count of a loop start
RepeatDigits(line) ==
  LET d2 == SkipDigits(line, SkipSpace(line, 1) + 4) + 1
  IN SubSeq(line, d2, SkipDigits(line, d2) - 1)

\* a numeral without its leading zeros (empty for zero)
RECURSIVE Canon(_)
Canon(ds) ==
  IF ds # <<>> /\ Head(ds) = "0" THEN Canon(Tail(ds)) ELSE ds

\* properly bracketed loops, each with a repeat of at least 1 and closed by
\* the loop end of its own ID, the numbers of any size
RECURSIVE Bracketed(_)
Bracketed(lines) ==
  IF lines = <<>> THEN TRUE
  ELSE IF IsStart(Head(lines))
  THEN LET j == MatchEnd(lines, 2, 1)
       IN /\ Canon(RepeatDigits(Head(lines))) # <<>>
          /\ j # 0
          /\ Canon(IdDigits(lines[j])) = Canon(IdDigits(Head(lines)))
          /\ Bracketed(SubSeq(lines, 2, j - 1))
          /\ Bracketed(SubSeq(lines, j + 1, Len(lines)))
  ELSE IF IsEnd(Head(lines)) THEN FALSE
  ELSE Bracketed(Tail(lines))

\* every ID and repeat count of the markers is at most INT_MAX
NumbersInInt(lines) ==
  \A i \in 1..Len(lines) :
    /\ (IsStart(lines[i]) \/ IsEnd(lines[i])) =>
         ~Stoi(IdDigits(lines[i]), 1, Len(IdDigits(lines[i])) + 1).over
    /\ IsStart(lines[i]) =>
         ~Stoi(RepeatDigits(lines[i]), 1, Len(RepeatDigits(lines[i])) + 1).over

NormalDispatches == SubSeq(dm_log, redispatches + 1, Len(dm_log))

\* C18: the re-dispatches of the constructor command apart, the commands
\* passed to updateDeviceStatus are exactly sequence_[0 .. step_index_ - 1]
\* in index order, each once, none skipped or repeated.
C18_DispatchOrder ==
  pc = "running" =>
    /\ step_index_ <= Len(sequence_)
    /\ NormalDispatches = SubSeq(sequence_, 1, step_index_)

\* C19: a moveToNextStep that takes the normal branch reads sequence_ at an
\* index strictly less than its length, in the constructor and afterwards.
C19_NoOutOfRangeAccess ==
  [][(calls' # calls /\ ~SpecialCase(step_index_, current_step_))
       => step_index_ < Len(sequence_)]_vars

\* C20: when step_index_ equals the length of sequence_ the current step is
\* "finished", and isSequenceCompleted does not hold before "finished" has
\* been dispatched.
C20_TerminalInstruction ==
  pc = "running" =>
    /\ step_index_ = Len(sequence_) => current_step_ = Finished
    /\ isSequenceCompleted => Finished \in Range(dm_log)

====
